---------------------------- MODULE Spec2Model ----------------------------
(***************************************************************************)
(* In-memory rate limiter of lib/security/rate-limit (src/unnamed/part_003) *)
(* and the sample route handler that calls it (src/unnamed/part_007).       *)
(*                                                                         *)
(* Time is Date.now() in milliseconds.  The clock advances in steps of     *)
(* Quantum (five minutes), so that a window of 15 minutes is three steps   *)
(* and the sweep interval is one.  JavaScript runs every synchronous       *)
(* function to completion, so each call of rateLimitCheck,                 *)
(* getRateLimitRemaining and each firing of the interval callback is one   *)
(* action.                                                                 *)
(***************************************************************************)
EXTENDS Integers, Sequences, FiniteSets, TLC

\* ---------------------------------------------------------------- bounds

\* How many checks beyond maxRequests a key may receive in one window.
Overrun == 2

\* Requests stop arriving after this many clock steps.
TrafficTicks == 4

\* Interval timers the runtime can hand out.
MaxTimers == 2

\* Request-handling contexts of the sample route.
MaxHandlers == 3

\* The requests to the sample route arrive within this many clock steps.
BurstTicks == 1

\* The largest maxRequests of the policies a single check is tried with.
MaxPolicy == 2

\* The largest count of the entry a single check is tried on.
MaxCount == 3

\* -------------------------------------------------------------- constants

\* One step of the clock.
Quantum == 5 * 60 * 1000

\* The longest window of the policy table (all three are 15 minutes).
WindowMs == 15 * 60 * 1000

CLEANUP_INTERVAL == 5 * 60 * 1000

\* The policy table.  maxRequests is scaled down from 100, 20 and 50 to 2, 1
\* and 2 (auth stays the strictest); windowMs is the source's.
RATE_LIMIT_CONFIG ==
    ("default" :> [maxRequests |-> 2, windowMs |-> 15 * 60 * 1000])
 @@ ("auth"    :> [maxRequests |-> 1, windowMs |-> 15 * 60 * 1000])
 @@ ("booking" :> [maxRequests |-> 2, windowMs |-> 15 * 60 * 1000])

RateLimitCategory == DOMAIN RATE_LIMIT_CONFIG

\* The last instant at which a request arrives, and the end of the clock:
\* one step after the last window that can be opened has ended.
TrafficEnd == TrafficTicks * Quantum

MaxTime == TrafficEnd + WindowMs + Quantum

\* The (category, identifier) pairs the callers use: two identifiers under
\* one category, one identifier under two categories, an identifier that
\* contains the separator.
Calls == { <<"auth", "a">>, <<"auth", "x:y">>, <<"booking", "a">> }

\* Calls that bypass the type RateLimitCategory (a plain JavaScript caller,
\* or a cast): the category is no key of RATE_LIMIT_CONFIG.
UntypedCalls == { <<"auth:x", "y">>, <<"admin", "a">> }

\* Values of the x-forwarded-for header seen by the sample route; a request
\* without the header is counted under "unknown".
Ips == { "a", "unknown" }

Handlers == 1 .. MaxHandlers

TimerIds == 1 .. MaxTimers

VARIABLES
    rateLimitStore,   \* Map<string, RateLimitEntry>: a function on its keys
    cleanupTimer,     \* 0 for null, else the id of the interval timer
    timers,           \* the runtime's interval timers: id -> next firing time
    now,              \* Date.now()
    last,             \* the call that was made last, and what it returned
    inWindow,         \* per stored key: checks made since its window opened
    pc,               \* per handler: idle, awaitBody, rejected (429),
                      \* responded (201, 400 or 500)
    observed,         \* per handler: what its check saw (ip, count, window)
    alive,            \* whether the process is running
    refed,            \* the timers that keep the process from exiting
    trial             \* the last application of a function to given inputs

vars == << rateLimitStore, cleanupTimer, timers, now, last, inWindow,
           pc, observed, alive, refed, trial >>

\* ------------------------------------------------------------- rate-limit

\* A key made of the identifier alone.
KeyWithoutCategory(category, identifier) == identifier

\* `${category}:${identifier}`
Key(category, identifier) == category \o ":" \o identifier

Max(a, b) == IF a > b THEN a ELSE b

\* An interval callback that stops at the first entry it deletes.
CleanupFirstOnly(store, t) ==
    LET expired == { j \in DOMAIN store : t > store[j].resetTime }
    IN  IF expired = {} THEN store
        ELSE LET first == CHOOSE j \in expired : TRUE
             IN  [ k \in DOMAIN store \ {first} |-> store[k] ]

\* An interval callback that deletes an entry from now = resetTime on.
CleanupAtDeadline(store, t) ==
    [ k \in { j \in DOMAIN store : ~(t >= store[j].resetTime) } |-> store[k] ]

\* An interval callback that empties the store.
CleanupClears(store, t) == << >>

\* The interval callback: delete every entry whose window has passed.
Cleanup(store, t) ==
    [ k \in { j \in DOMAIN store : ~(t > store[j].resetTime) } |-> store[k] ]

\* rateLimitStore.set(key, entry)
MapSet(store, key, entry) ==
    [ k \in DOMAIN store \cup {key} |-> IF k = key THEN entry ELSE store[k] ]

\* rateLimitCheck with the limit test written count >= maxRequests.
CheckOffByOne(store, identifier, category, t) ==
    LET key == Key(category, identifier)
    IN  IF key \notin DOMAIN store \/ t > store[key].resetTime
        THEN [ store |-> MapSet(store, key,
                           [ count |-> 1,
                             resetTime |-> t + RATE_LIMIT_CONFIG[category].windowMs ]),
               ret |-> TRUE, threw |-> FALSE ]
        ELSE LET bumped == [ store EXCEPT ![key].count = @ + 1 ]
             IN  [ store |-> bumped,
                   ret |-> ~(bumped[key].count >= RATE_LIMIT_CONFIG[category].maxRequests),
                   threw |-> FALSE ]

\* rateLimitCheck that resets only a missing entry: an expired entry keeps
\* counting.
CheckNoExpiry(store, identifier, category, t) ==
    LET key == Key(category, identifier)
    IN  IF key \notin DOMAIN store
        THEN [ store |-> MapSet(store, key,
                           [ count |-> 1,
                             resetTime |-> t + RATE_LIMIT_CONFIG[category].windowMs ]),
               ret |-> TRUE, threw |-> FALSE ]
        ELSE LET bumped == [ store EXCEPT ![key].count = @ + 1 ]
             IN  [ store |-> bumped,
                   ret |-> ~(bumped[key].count > RATE_LIMIT_CONFIG[category].maxRequests),
                   threw |-> FALSE ]

\* rateLimitCheck that tests the limit on a copy of the entry: the
\* incremented count is never stored.
CheckLostUpdate(store, identifier, category, t) ==
    LET key == Key(category, identifier)
    IN  IF key \notin DOMAIN store \/ t > store[key].resetTime
        THEN [ store |-> MapSet(store, key,
                           [ count |-> 1,
                             resetTime |-> t + RATE_LIMIT_CONFIG[category].windowMs ]),
               ret |-> TRUE, threw |-> FALSE ]
        ELSE [ store |-> store,
               ret |-> ~(store[key].count + 1 > RATE_LIMIT_CONFIG[category].maxRequests),
               threw |-> FALSE ]

\* rateLimitCheck with the limit test applied to the first request of a
\* window as well.
CheckLimitsFirst(table, store, identifier, category, t) ==
    LET key == Key(category, identifier)
    IN  IF key \notin DOMAIN store \/ t > store[key].resetTime
        THEN [ store |-> MapSet(store, key,
                           [ count |-> 1,
                             resetTime |-> t + table[category].windowMs ]),
               ret |-> ~(1 > table[category].maxRequests), threw |-> FALSE ]
        ELSE LET bumped == [ store EXCEPT ![key].count = @ + 1 ]
             IN  [ store |-> bumped,
                   ret |-> ~(bumped[key].count > table[category].maxRequests),
                   threw |-> FALSE ]

\* rateLimitCheck that treats an entry as expired from now = resetTime on.
CheckResetAtDeadline(store, identifier, category, t) ==
    LET key == Key(category, identifier)
    IN  IF key \notin DOMAIN store \/ t >= store[key].resetTime
        THEN [ store |-> MapSet(store, key,
                           [ count |-> 1,
                             resetTime |-> t + RATE_LIMIT_CONFIG[category].windowMs ]),
               ret |-> TRUE, threw |-> FALSE ]
        ELSE LET bumped == [ store EXCEPT ![key].count = @ + 1 ]
             IN  [ store |-> bumped,
                   ret |-> ~(bumped[key].count > RATE_LIMIT_CONFIG[category].maxRequests),
                   threw |-> FALSE ]

\* rateLimitCheck that stops counting once a check has been rejected.
CheckCapped(store, identifier, category, t) ==
    LET key == Key(category, identifier)
    IN  IF key \notin DOMAIN store \/ t > store[key].resetTime
        THEN [ store |-> MapSet(store, key,
                           [ count |-> 1,
                             resetTime |-> t + RATE_LIMIT_CONFIG[category].windowMs ]),
               ret |-> TRUE, threw |-> FALSE ]
        ELSE IF store[key].count > RATE_LIMIT_CONFIG[category].maxRequests
        THEN [ store |-> store, ret |-> FALSE, threw |-> FALSE ]
        ELSE LET bumped == [ store EXCEPT ![key].count = @ + 1 ]
             IN  [ store |-> bumped,
                   ret |-> ~(bumped[key].count > RATE_LIMIT_CONFIG[category].maxRequests),
                   threw |-> FALSE ]

\* rateLimitCheck with a sliding window: every check moves resetTime.
CheckSliding(store, identifier, category, t) ==
    LET key == Key(category, identifier)
    IN  IF key \notin DOMAIN store \/ t > store[key].resetTime
        THEN [ store |-> MapSet(store, key,
                           [ count |-> 1,
                             resetTime |-> t + RATE_LIMIT_CONFIG[category].windowMs ]),
               ret |-> TRUE, threw |-> FALSE ]
        ELSE LET bumped == [ store EXCEPT ![key] =
                               [ count |-> @.count + 1,
                                 resetTime |-> t + RATE_LIMIT_CONFIG[category].windowMs ] ]
             IN  [ store |-> bumped,
                   ret |-> ~(bumped[key].count > RATE_LIMIT_CONFIG[category].maxRequests),
                   threw |-> FALSE ]

\* rateLimitCheck that extends the window of a key whose check it rejects.
CheckPenalty(store, identifier, category, t) ==
    LET key == Key(category, identifier)
    IN  IF key \notin DOMAIN store \/ t > store[key].resetTime
        THEN [ store |-> MapSet(store, key,
                           [ count |-> 1,
                             resetTime |-> t + RATE_LIMIT_CONFIG[category].windowMs ]),
               ret |-> TRUE, threw |-> FALSE ]
        ELSE LET bumped == [ store EXCEPT ![key].count = @ + 1 ]
             IN  IF bumped[key].count > RATE_LIMIT_CONFIG[category].maxRequests
                 THEN [ store |-> [ bumped EXCEPT ![key].resetTime =
                                      t + RATE_LIMIT_CONFIG[category].windowMs ],
                        ret |-> FALSE, threw |-> FALSE ]
                 ELSE [ store |-> bumped, ret |-> TRUE, threw |-> FALSE ]

\* The body of rateLimitCheck after startCleanup(), with the table of
\* policies it reads as a parameter: the store it leaves, what it returns,
\* and whether it threw.  table[category] is undefined for a category that
\* is no key of the table, and reading a property of undefined throws a
\* TypeError at the statement that reads it.
RateLimitCheckWith(table, store, identifier, category, t) ==
    LET known == category \in DOMAIN table
        key   == Key(category, identifier)
    IN  IF key \notin DOMAIN store \/ t > store[key].resetTime
        THEN IF known
             THEN [ store |-> MapSet(store, key,
                                [ count |-> 1,
                                  resetTime |-> t + table[category].windowMs ]),
                    ret |-> TRUE, threw |-> FALSE ]
             ELSE [ store |-> store, ret |-> FALSE, threw |-> TRUE ]
        ELSE LET bumped == [ store EXCEPT ![key].count = @ + 1 ]
             IN  IF known
                 THEN [ store |-> bumped,
                        ret |-> ~(bumped[key].count > table[category].maxRequests),
                        threw |-> FALSE ]
                 ELSE [ store |-> bumped, ret |-> FALSE, threw |-> TRUE ]

\* rateLimitCheck, which reads RATE_LIMIT_CONFIG.
RateLimitCheckCall(store, identifier, category, t) ==
    RateLimitCheckWith(RATE_LIMIT_CONFIG, store, identifier, category, t)

\* getRateLimitRemaining without Math.max.
RemainingUnclamped(store, identifier, category, t) ==
    LET key == Key(category, identifier)
    IN  IF key \notin DOMAIN store \/ t > store[key].resetTime
        THEN [ store |-> store, ret |-> RATE_LIMIT_CONFIG[category].maxRequests,
               threw |-> FALSE ]
        ELSE [ store |-> store,
               ret |-> RATE_LIMIT_CONFIG[category].maxRequests - store[key].count,
               threw |-> FALSE ]

\* getRateLimitRemaining that deletes the expired entry it finds.
RemainingDeletesExpired(store, identifier, category, t) ==
    LET key == Key(category, identifier)
    IN  IF key \notin DOMAIN store
        THEN [ store |-> store, ret |-> RATE_LIMIT_CONFIG[category].maxRequests,
               threw |-> FALSE ]
        ELSE IF t > store[key].resetTime
        THEN [ store |-> [ k \in DOMAIN store \ {key} |-> store[k] ],
               ret |-> RATE_LIMIT_CONFIG[category].maxRequests, threw |-> FALSE ]
        ELSE [ store |-> store,
               ret |-> Max(0, RATE_LIMIT_CONFIG[category].maxRequests - store[key].count),
               threw |-> FALSE ]

\* getRateLimitRemaining that does not count the check which opened the
\* window.
RemainingSkipsFirst(store, identifier, category, t) ==
    LET key == Key(category, identifier)
    IN  IF key \notin DOMAIN store \/ t > store[key].resetTime
        THEN [ store |-> store, ret |-> RATE_LIMIT_CONFIG[category].maxRequests,
               threw |-> FALSE ]
        ELSE [ store |-> store,
               ret |-> Max(0, RATE_LIMIT_CONFIG[category].maxRequests
                              - (store[key].count - 1)),
               threw |-> FALSE ]

\* getRateLimitRemaining: the store it leaves, what it returns, and whether
\* it threw.
GetRateLimitRemainingCall(store, identifier, category, t) ==
    LET known == category \in DOMAIN RATE_LIMIT_CONFIG
        key   == Key(category, identifier)
    IN  IF ~known
        THEN [ store |-> store, ret |-> 0, threw |-> TRUE ]
        ELSE IF key \notin DOMAIN store \/ t > store[key].resetTime
        THEN [ store |-> store, ret |-> RATE_LIMIT_CONFIG[category].maxRequests,
               threw |-> FALSE ]
        ELSE [ store |-> store,
               ret |-> Max(0, RATE_LIMIT_CONFIG[category].maxRequests - store[key].count),
               threw |-> FALSE ]

\* startCleanup without its guard: every call sets a new interval.
StartCleanupUnguarded(timer, tms, t) ==
    IF \A i \in TimerIds : i \in DOMAIN tms
    THEN [ timer |-> timer, timers |-> tms, refs |-> {} ]
    ELSE LET id == CHOOSE i \in TimerIds : i \notin DOMAIN tms
         IN  [ timer |-> id,
               timers |-> [ i \in DOMAIN tms \cup {id} |->
                              IF i = id THEN t + CLEANUP_INTERVAL ELSE tms[i] ],
               refs |-> {} ]

\* startCleanup without cleanupTimer.unref().
StartCleanupNoUnref(timer, tms, t) ==
    IF timer # 0
    THEN [ timer |-> timer, timers |-> tms, refs |-> {} ]
    ELSE LET id == CHOOSE i \in TimerIds : i \notin DOMAIN tms
         IN  [ timer |-> id,
               timers |-> [ i \in DOMAIN tms \cup {id} |->
                              IF i = id THEN t + CLEANUP_INTERVAL ELSE tms[i] ],
               refs |-> {id} ]

\* startCleanup: the timer handle and the runtime's timers it leaves, and
\* the timers it leaves holding the process (none: the Timeout object that
\* setInterval returns has unref, and it is called).
StartCleanupCall(timer, tms, t) ==
    IF timer # 0
    THEN [ timer |-> timer, timers |-> tms, refs |-> {} ]
    ELSE LET id == CHOOSE i \in TimerIds : i \notin DOMAIN tms
         IN  [ timer |-> id,
               timers |-> [ i \in DOMAIN tms \cup {id} |->
                              IF i = id THEN t + CLEANUP_INTERVAL ELSE tms[i] ],
               refs |-> {} ]

\* --------------------------------------------------------------- the state

\* prior: for a check, the count of the key's entry before the call (0 when
\* it had none); for a sweep, the number of entries it deleted; for the exit
\* of the process, the number of interval timers that were set.
NoCall == [ op |-> "none", category |-> "", identifier |-> "",
            allowed |-> FALSE, remaining |-> 0, threw |-> FALSE, prior |-> 0 ]

CountOf(store, key) == IF key \in DOMAIN store THEN store[key].count ELSE 0

Init ==
    /\ rateLimitStore = << >>
    /\ cleanupTimer = 0
    /\ timers = << >>
    /\ now = 0
    /\ last = NoCall
    /\ inWindow = << >>
    /\ pc = [ h \in Handlers |-> "idle" ]
    /\ observed = [ h \in Handlers |-> [ ip |-> "", count |-> 0, window |-> 0 ] ]
    /\ alive = TRUE
    /\ refed = {}
    /\ trial = [ fn |-> "none" ]

\* Whether a check may be made: requests still arrive, the key's counter is
\* below the model's cap, and the runtime can hand out a timer if needed.
CanCheck(category, identifier) ==
    LET key == Key(category, identifier)
    IN  /\ alive
        /\ now <= TrafficEnd
        /\ IF key \notin DOMAIN rateLimitStore THEN TRUE
           ELSE IF now > rateLimitStore[key].resetTime THEN TRUE
           ELSE IF category \notin DOMAIN RATE_LIMIT_CONFIG
           THEN rateLimitStore[key].count < 1 + Overrun
           ELSE rateLimitStore[key].count < RATE_LIMIT_CONFIG[category].maxRequests + Overrun
        /\ IF cleanupTimer # 0 THEN TRUE ELSE \E i \in TimerIds : i \notin DOMAIN timers

\* The count of checks made on each stored key since its window opened,
\* kept beside the store: 1 for the check that opens a window.
Counted(store, key, t) ==
    LET opens == key \notin DOMAIN rateLimitStore \/ t > rateLimitStore[key].resetTime
    IN  [ k \in DOMAIN store |->
            IF k = key
            THEN IF opens THEN 1 ELSE inWindow[k] + 1
            ELSE inWindow[k] ]

\* A call of rateLimitCheck(identifier, category).
DoCheck(category, identifier) ==
    LET sc == StartCleanupCall(cleanupTimer, timers, now)
        r  == RateLimitCheckCall(rateLimitStore, identifier, category, now)
    IN  /\ cleanupTimer' = sc.timer
        /\ timers' = sc.timers
        /\ refed' = refed \cup sc.refs
        /\ rateLimitStore' = r.store
        /\ inWindow' = Counted(r.store, Key(category, identifier), now)
        /\ last' = [ op |-> "check", category |-> category, identifier |-> identifier,
                     allowed |-> r.ret, remaining |-> 0, threw |-> r.threw,
                     prior |-> CountOf(rateLimitStore, Key(category, identifier)) ]
        /\ UNCHANGED << now, alive, trial >>

Check ==
    \E c \in Calls :
        /\ CanCheck(c[1], c[2])
        /\ DoCheck(c[1], c[2])
        /\ UNCHANGED << pc, observed >>

\* A call of getRateLimitRemaining(identifier, category).
DoRemaining(category, identifier) ==
    LET r == GetRateLimitRemainingCall(rateLimitStore, identifier, category, now)
    IN  /\ alive
        /\ rateLimitStore' = r.store
        /\ inWindow' = [ k \in DOMAIN r.store |-> inWindow[k] ]
        /\ last' = [ op |-> "remaining", category |-> category, identifier |-> identifier,
                     allowed |-> FALSE, remaining |-> r.ret, threw |-> r.threw,
                     prior |-> 0 ]
        /\ UNCHANGED << cleanupTimer, timers, now, alive, refed, trial >>

Remaining ==
    \E c \in Calls :
        /\ DoRemaining(c[1], c[2])
        /\ UNCHANGED << pc, observed >>

\* The interval timer fires: the callback of setInterval runs once.
Sweep ==
    \E id \in DOMAIN timers :
        /\ alive
        /\ now >= timers[id]
        /\ rateLimitStore' = Cleanup(rateLimitStore, now)
        /\ inWindow' = [ k \in DOMAIN Cleanup(rateLimitStore, now) |-> inWindow[k] ]
        /\ timers' = [ timers EXCEPT ![id] = now + CLEANUP_INTERVAL ]
        /\ last' = [ NoCall EXCEPT !.op = "sweep",
                                  !.prior = Cardinality(DOMAIN rateLimitStore)
                                            - Cardinality(DOMAIN Cleanup(rateLimitStore, now)) ]
        /\ UNCHANGED << cleanupTimer, now, pc, observed, alive, refed, trial >>

\* The clock advances by one step, once every timer that is due has fired.
Tick ==
    /\ alive
    /\ now < MaxTime
    /\ \A id \in DOMAIN timers : now < timers[id]
    /\ now' = now + Quantum
    /\ last' = [ NoCall EXCEPT !.op = "tick" ]
    /\ UNCHANGED << rateLimitStore, cleanupTimer, timers, inWindow, pc, observed,
                    alive, refed, trial >>

Next == Check \/ Remaining \/ Sweep \/ Tick

Spec == Init /\ [][Next]_vars

\* The clock keeps advancing and the interval timer keeps firing.
FairSpec == Spec /\ WF_vars(Tick) /\ WF_vars(Sweep)

\* The process exits: nothing holds the event loop (no timer that was not
\* unref'ed, no request awaiting its body), and the module's state goes
\* with it.
Exit ==
    /\ alive
    /\ refed = {}
    /\ \A h \in Handlers : pc[h] # "awaitBody"
    /\ alive' = FALSE
    /\ rateLimitStore' = << >>
    /\ inWindow' = << >>
    /\ cleanupTimer' = 0
    /\ timers' = << >>
    /\ last' = [ NoCall EXCEPT !.op = "exit", !.prior = Cardinality(DOMAIN timers) ]
    /\ UNCHANGED << now, pc, observed, refed, trial >>

NextShutdown == Check \/ Remaining \/ Sweep \/ Tick \/ Exit

SpecShutdown == Init /\ [][NextShutdown]_vars

\* ------------------------------------------------- callers outside the type

\* rateLimitCheck called with a category that is no key of the table.
CheckUntyped ==
    \E c \in UntypedCalls :
        /\ CanCheck(c[1], c[2])
        /\ DoCheck(c[1], c[2])
        /\ UNCHANGED << pc, observed >>

\* getRateLimitRemaining called with a category that is no key of the table.
RemainingUntyped ==
    \E c \in UntypedCalls :
        /\ DoRemaining(c[1], c[2])
        /\ UNCHANGED << pc, observed >>

NextUntyped == Check \/ CheckUntyped \/ RemainingUntyped \/ Sweep \/ Tick

SpecUntyped == Init /\ [][NextUntyped]_vars

\* ------------------------------------------------------- the sample route

\* POST up to its first await: the header is read, rateLimitCheck(ip,
\* "default") is called, and a rejected request is answered 429.  Contexts
\* are numbered in the order in which their requests arrive.
PostStart ==
    \E h \in Handlers, ip \in Ips :
        /\ pc[h] = "idle"
        /\ \A g \in Handlers : g < h => pc[g] # "idle"
        /\ now <= BurstTicks * Quantum
        /\ CanCheck("default", ip)
        /\ DoCheck("default", ip)
        /\ LET r == RateLimitCheckCall(rateLimitStore, ip, "default", now)
               key == Key("default", ip)
           IN  /\ observed' = [ observed EXCEPT ![h] =
                                  [ ip |-> ip,
                                    count |-> IF r.store[key].count = 1 THEN 0
                                              ELSE CountOf(rateLimitStore, key),
                                    window |-> r.store[key].resetTime ] ]
               /\ pc' = [ pc EXCEPT ![h] = IF r.ret THEN "awaitBody" ELSE "rejected" ]

\* POST after request.json() settles: the request is answered 201, 400 (a
\* body the schema rejects) or 500 (a body that does not parse).
PostFinish ==
    \E h \in Handlers :
        /\ alive
        /\ pc[h] = "awaitBody"
        /\ pc' = [ pc EXCEPT ![h] = "responded" ]
        /\ last' = [ NoCall EXCEPT !.op = "respond" ]
        /\ UNCHANGED << rateLimitStore, cleanupTimer, timers, now, inWindow, observed,
                        alive, refed, trial >>

NextConc == PostStart \/ PostFinish \/ Sweep \/ Tick

SpecConc == Init /\ [][NextConc]_vars

\* ----------------------------------------------------------------- proxy
\* proxy.ts (src/unnamed/part_005).  A pathname is the sequence of its
\* characters, so that startsWith and includes are what they are in the
\* source.

StartsWith(p, q) == Len(q) <= Len(p) /\ SubSeq(p, 1, Len(q)) = q

Includes(p, ch) == \E i \in 1 .. Len(p) : p[i] = ch

PUBLIC_ROUTES ==
    { << "/" >>,
      << "/", "l", "o", "g", "i", "n" >>,
      << "/", "r", "e", "g", "i", "s", "t", "e", "r" >>,
      << "/", "f", "o", "r", "g", "o", "t", "-", "p", "a", "s", "s", "w", "o", "r", "d" >> }

SECURITY_HEADERS ==
    ("X-Content-Type-Options" :> "nosniff")
 @@ ("X-Frame-Options" :> "DENY")
 @@ ("X-XSS-Protection" :> "1; mode=block")
 @@ ("Referrer-Policy" :> "strict-origin-when-cross-origin")
 @@ ("Permissions-Policy" :> "camera=(), microphone=(), geolocation=()")
 @@ ("Strict-Transport-Security" :> "max-age=63072000; includeSubDomains; preload")
 @@ ("Content-Security-Policy" :> "default-src 'self'; script-src 'self' 'unsafe-inline' 'unsafe-eval'; style-src 'self' 'unsafe-inline'; img-src 'self' data: https://images.unsplash.com; font-src 'self'; connect-src 'self' http://localhost:5000; frame-ancestors 'none'")

LoginPath == << "/", "l", "o", "g", "i", "n" >>

\* The pathnames requested: the public routes, a sub-path and a look-alike
\* of one, protected pages, a protected path with a dot in it, an API route,
\* and paths of static assets.
SamplePaths ==
    { << "/" >>,
      << "/", "l", "o", "g", "i", "n" >>,
      << "/", "l", "o", "g", "i", "n", "/", "r", "e", "s", "e", "t" >>,
      << "/", "l", "o", "g", "i", "n", "x" >>,
      << "/", "r", "e", "g", "i", "s", "t", "e", "r" >>,
      << "/", "f", "o", "r", "g", "o", "t", "-", "p", "a", "s", "s", "w", "o", "r", "d" >>,
      << "/", "a", "d", "m", "i", "n" >>,
      << "/", "a", "d", "m", "i", "n", "/", "u", "s", "e", "r", "s" >>,
      << "/", "a", "d", "m", "i", "n", "/", "r", "e", "p", "o", "r", "t", ".", "p", "d", "f" >>,
      << "/", "d", "a", "s", "h", "b", "o", "a", "r", "d" >>,
      << "/", "a", "p", "i", "/", "s", "a", "m", "p", "l", "e" >>,
      << "/", "_", "n", "e", "x", "t", "/", "d", "a", "t", "a" >>,
      << "/", "_", "n", "e", "x", "t", "/", "s", "t", "a", "t", "i", "c", "/", "a", "p", "p", ".", "j", "s" >>,
      << "/", "f", "a", "v", "i", "c", "o", "n", ".", "i", "c", "o" >>,
      << "/", "f", "a", "v", "i", "c", "o", "n", "x" >> }

\* The cookies a request may carry: each of the two session cookies is
\* absent, present with an empty value, or present with a token.
CookieJars ==
    { jar \in [ { "session-token", "next-auth.session-token" } -> { "absent", "", "tok" } ] : TRUE }

\* request.cookies.get(name)?.value, with undefined as "" (both are falsy).
CookieValue(jar, name) == IF jar[name] = "absent" THEN "" ELSE jar[name]

\* config.matcher: "/((?!_next/static|_next/image|favicon.ico).*)"; the dot
\* of the pattern stands for any one character.
MatcherMatches(pathname) ==
    /\ StartsWith(pathname, << "/" >>)
    /\ ~StartsWith(pathname, << "/", "_", "n", "e", "x", "t", "/", "s", "t", "a", "t", "i", "c" >>)
    /\ ~StartsWith(pathname, << "/", "_", "n", "e", "x", "t", "/", "i", "m", "a", "g", "e" >>)
    /\ ~( /\ StartsWith(pathname, << "/", "f", "a", "v", "i", "c", "o", "n" >>)
          /\ Len(pathname) >= 12
          /\ SubSeq(pathname, 10, 12) = << "i", "c", "o" >> )

IsPublicRoute(pathname) ==
    \E route \in PUBLIC_ROUTES :
        pathname = route \/ StartsWith(pathname, route \o << "/" >>)

IsStaticOrApi(pathname) ==
    \/ StartsWith(pathname, << "/", "_", "n", "e", "x", "t" >>)
    \/ StartsWith(pathname, << "/", "f", "a", "v", "i", "c", "o", "n" >>)
    \/ Includes(pathname, ".")

\* proxy(request): the response it returns.  NextResponse.next() is the
\* response the headers were set on; NextResponse.redirect(loginUrl) is a
\* new response with its Location header only.
ProxyCall(pathname, jar) ==
    LET response == [ kind |-> "next", headers |-> SECURITY_HEADERS,
                      location |-> << >>, callbackUrl |-> << >> ]
        token == IF CookieValue(jar, "session-token") # ""
                 THEN CookieValue(jar, "session-token")
                 ELSE CookieValue(jar, "next-auth.session-token")
    IN  IF IsPublicRoute(pathname) \/ IsStaticOrApi(pathname)
        THEN response
        ELSE IF token = ""
        THEN [ kind |-> "redirect", headers |-> ("Location" :> "/login"),
               location |-> LoginPath, callbackUrl |-> pathname ]
        ELSE response

\* The proxy handles a request.
TryProxy ==
    \E pathname \in SamplePaths, jar \in CookieJars :
        /\ alive
        /\ MatcherMatches(pathname)
        /\ trial' = [ fn |-> "proxy", pathname |-> pathname, jar |-> jar,
                      response |-> ProxyCall(pathname, jar) ]
        /\ UNCHANGED << rateLimitStore, cleanupTimer, timers, now, last, inWindow,
                        pc, observed, alive, refed >>

NextProxy == TryProxy

SpecProxy == Init /\ [][NextProxy]_vars

\* ------------------------------------------------- one check, any policy
\* rateLimitCheck applied once to a store of at most one entry, under a
\* table whose policies have any maxRequests from 0 on.

Times == { i * Quantum : i \in 0 .. (MaxTime \div Quantum) }

PolicyTable(maxRequests) ==
    [ c \in RateLimitCategory |->
        [ maxRequests |-> maxRequests, windowMs |-> RATE_LIMIT_CONFIG[c].windowMs ] ]

Stores ==
    { << >> } \cup
    { MapSet(<< >>, Key("auth", "a"), [ count |-> n, resetTime |-> r ]) :
        n \in 1 .. MaxCount, r \in Times }

TryPolicy ==
    \E maxRequests \in 0 .. MaxPolicy, store \in Stores, t \in Times :
        /\ alive
        /\ trial' = [ fn |-> "check", maxRequests |-> maxRequests,
                      store |-> store, t |-> t,
                      result |-> RateLimitCheckWith(PolicyTable(maxRequests),
                                                    store, "a", "auth", t) ]
        /\ UNCHANGED << rateLimitStore, cleanupTimer, timers, now, last, inWindow,
                        pc, observed, alive, refed >>

NextPolicy == TryPolicy

SpecPolicy == Init /\ [][NextPolicy]_vars

\* ------------------------------------------------------- the composite key
\* The key of two calls, for every category of the table and identifiers
\* that are empty, contain the separator, or spell a category.

Identifiers == { "", ":", "a", "a:", ":a", "x:y", "auth", "auth:a", ":auth:a" }

TryKey ==
    \E c1 \in RateLimitCategory, c2 \in RateLimitCategory,
       i1 \in Identifiers, i2 \in Identifiers :
        /\ alive
        /\ trial' = [ fn |-> "key", c1 |-> c1, i1 |-> i1, c2 |-> c2, i2 |-> i2,
                      k1 |-> Key(c1, i1), k2 |-> Key(c2, i2) ]
        /\ UNCHANGED << rateLimitStore, cleanupTimer, timers, now, last, inWindow,
                        pc, observed, alive, refed >>

NextKey == TryKey

SpecKey == Init /\ [][NextKey]_vars

\* ------------------------------------------------------------------ claims

\* What the callers see of a key.
KeyOfLast == Key(last.category, last.identifier)

MaxRequestsOf(category) == RATE_LIMIT_CONFIG[category].maxRequests

Present(store, c) == Key(c[1], c[2]) \in DOMAIN store

InsideWindow(store, c, t) ==
    IF Present(store, c) THEN ~(t > store[Key(c[1], c[2])].resetTime) ELSE FALSE

\* The step is a call of rateLimitCheck(c[2], c[1]).
IsCheckOf(c) ==
    /\ last'.op = "check"
    /\ last'.category = c[1]
    /\ last'.identifier = c[2]

\* The step is a call of getRateLimitRemaining(c[2], c[1]).
IsRemainingOf(c) ==
    /\ last'.op = "remaining"
    /\ last'.category = c[1]
    /\ last'.identifier = c[2]

\* C1: of the checks made on a key inside one window, the first one
\* included, exactly the first maxRequests return true; the (maxRequests +
\* 1)th and every later one return false until the window is reset.
C1_LimitEnforcement ==
    (last.op = "check" /\ last.category \in RateLimitCategory)
        => /\ ~last.threw
           /\ KeyOfLast \in DOMAIN inWindow
           /\ last.allowed = (inWindow[KeyOfLast] <= MaxRequestsOf(last.category))

\* A check that is the second one beyond the limit of its window, rejected.
C1_Witness ==
    /\ last.op = "check"
    /\ last.category = "auth"
    /\ KeyOfLast \in DOMAIN inWindow
    /\ inWindow[KeyOfLast] = MaxRequestsOf("auth") + 2
    /\ ~last.allowed

\* C3: a check on a key whose entry has expired (now > resetTime) returns
\* true and leaves the entry with count 1 and resetTime now + windowMs,
\* whatever the stale count was.
C3_WindowReset ==
    [][ \A c \in Calls :
          (IsCheckOf(c) /\ Present(rateLimitStore, c)
                        /\ ~InsideWindow(rateLimitStore, c, now))
            => /\ last'.allowed
               /\ ~last'.threw
               /\ Present(rateLimitStore', c)
               /\ rateLimitStore'[Key(c[1], c[2])] =
                     [ count |-> 1,
                       resetTime |-> now + RATE_LIMIT_CONFIG[c[1]].windowMs ] ]_vars

\* A check that found an expired entry whose count was above maxRequests.
C3_Witness ==
    /\ last.op = "check"
    /\ last.category = "auth"
    /\ last.prior > MaxRequestsOf("auth")
    /\ last.allowed
    /\ rateLimitStore[KeyOfLast] = [ count |-> 1, resetTime |-> now + WindowMs ]

\* C4: a check on one (category, identifier) leaves the entry, or the
\* absence, of every other pair unchanged.
C4_Independence ==
    [][ \A c \in Calls :
          IsCheckOf(c)
            => \A d \in Calls \ {c} :
                 /\ Present(rateLimitStore', d) = Present(rateLimitStore, d)
                 /\ Present(rateLimitStore, d)
                      => rateLimitStore'[Key(d[1], d[2])] = rateLimitStore[Key(d[1], d[2])] ]_vars

\* A check on auth/a while auth/x:y and booking/a hold other counts.
C4_Witness ==
    /\ last.op = "check"
    /\ last.category = "auth"
    /\ last.identifier = "a"
    /\ \A c \in Calls : Present(rateLimitStore, c)
    /\ rateLimitStore[Key("auth", "a")].count = 3
    /\ rateLimitStore[Key("auth", "x:y")].count = 1
    /\ rateLimitStore[Key("booking", "a")].count = 2

\* The quota the claim states for a key at time t.
QuotaOf(store, c, t) ==
    IF ~Present(store, c) THEN MaxRequestsOf(c[1])
    ELSE IF t > store[Key(c[1], c[2])].resetTime THEN MaxRequestsOf(c[1])
    ELSE IF store[Key(c[1], c[2])].count >= MaxRequestsOf(c[1]) THEN 0
    ELSE MaxRequestsOf(c[1]) - store[Key(c[1], c[2])].count

\* C5: getRateLimitRemaining returns maxRequests for a key with no entry or
\* an expired one, max(0, maxRequests - count) otherwise, and never a
\* negative number.
C5_QuotaValue ==
    [][ \A c \in Calls :
          IsRemainingOf(c)
            => /\ ~last'.threw
               /\ last'.remaining = QuotaOf(rateLimitStore, c, now)
               /\ last'.remaining >= 0 ]_vars

\* A quota query on a key that was checked more than maxRequests times in
\* its current window.
C5_Witness ==
    /\ last.op = "remaining"
    /\ last.remaining = 0
    /\ KeyOfLast \in DOMAIN rateLimitStore
    /\ ~(now > rateLimitStore[KeyOfLast].resetTime)
    /\ rateLimitStore[KeyOfLast].count > MaxRequestsOf(last.category)

\* C6: getRateLimitRemaining leaves the store and the timer as they were,
\* and with them the outcome of every later rateLimitCheck.
C6_QuotaIsPureRead ==
    [][ \A c \in Calls :
          IsRemainingOf(c)
            => /\ rateLimitStore' = rateLimitStore
               /\ cleanupTimer' = cleanupTimer
               /\ timers' = timers
               /\ \A d \in Calls :
                    RateLimitCheckCall(rateLimitStore', d[2], d[1], now')
                       = RateLimitCheckCall(rateLimitStore, d[2], d[1], now) ]_vars

\* A quota query on a key whose expired entry is still stored.
C6_Witness ==
    /\ last.op = "remaining"
    /\ KeyOfLast \in DOMAIN rateLimitStore
    /\ now > rateLimitStore[KeyOfLast].resetTime
    /\ rateLimitStore[KeyOfLast].count > 1

\* C2: of the checks that the request-handling contexts make on one key in
\* one window, no two see the same count before their increment, and
\* exactly min(number of checks, maxRequests) are admitted, whatever the
\* order in which the contexts run.
SameWindow(g, h) ==
    /\ pc[g] # "idle"
    /\ pc[h] # "idle"
    /\ observed[g].ip = observed[h].ip
    /\ observed[g].window = observed[h].window

Admitted(h) == pc[h] \in { "awaitBody", "responded" }

C2_ConcurrentChecks ==
    \A h \in Handlers :
        pc[h] # "idle"
          => LET peers == { g \in Handlers : SameWindow(g, h) }
                 admitted == { g \in peers : Admitted(g) }
             IN  /\ \A g \in peers : g # h => observed[g].count # observed[h].count
                 /\ Cardinality(admitted) =
                      IF Cardinality(peers) <= MaxRequestsOf("default")
                      THEN Cardinality(peers) ELSE MaxRequestsOf("default")

\* More contexts than maxRequests have checked one key in one window, and
\* those admitted are still awaiting their request body.
C2_Witness ==
    /\ \A h \in Handlers : pc[h] \in { "awaitBody", "rejected" }
    /\ \A g, h \in Handlers : SameWindow(g, h)
    /\ Cardinality(Handlers) > MaxRequestsOf("default")

\* C7: a call with a category that is no key of RATE_LIMIT_CONFIG ends in an
\* error and leaves the store as it was.
C7_UnknownCategory ==
    [][ \A c \in UntypedCalls :
          (IsCheckOf(c) \/ IsRemainingOf(c))
            => /\ last'.threw
               /\ rateLimitStore' = rateLimitStore ]_vars

\* C8: a sweep deletes every entry whose resetTime has passed; an absent
\* key stays absent until it is checked; and once checks have stopped,
\* with the clock and the timer running, the store becomes empty for good.
SweepDeletesExpired ==
    [][ last'.op = "sweep"
          => \A k \in DOMAIN rateLimitStore :
               now > rateLimitStore[k].resetTime => k \notin DOMAIN rateLimitStore' ]_vars

AbsentUntilChecked ==
    [][ \A k \in DOMAIN rateLimitStore' :
          k \notin DOMAIN rateLimitStore
            => last'.op = "check" /\ Key(last'.category, last'.identifier) = k ]_vars

C8_Reclamation ==
    /\ SweepDeletesExpired
    /\ AbsentUntilChecked
    /\ <>[](DOMAIN rateLimitStore = {})

\* A sweep that deleted two expired entries and left the store empty.
C8_Witness ==
    /\ last.op = "sweep"
    /\ last.prior = 2
    /\ DOMAIN rateLimitStore = {}

\* C9: at most one interval timer is ever set, it is the one cleanupTimer
\* holds, and a check made once cleanupTimer is set leaves it unchanged.
C9_SweepSingleton ==
    /\ [](Cardinality(DOMAIN timers) <= 1)
    /\ [](cleanupTimer # 0 => DOMAIN timers = {cleanupTimer})
    /\ [][ (last'.op = "check" /\ cleanupTimer # 0)
             => (cleanupTimer' = cleanupTimer /\ DOMAIN timers' = DOMAIN timers) ]_vars

\* A check made on a key that had been checked before: startCleanup has run
\* at least twice.
C9_Witness ==
    /\ last.op = "check"
    /\ last.prior >= 2
    /\ cleanupTimer # 0
    /\ Cardinality(DOMAIN timers) = 1

\* What getRateLimitRemaining returns for c in the given state.
RemainingOf(store, c, t) == GetRateLimitRemainingCall(store, c[2], c[1], t).ret

\* C10: an admitted check lowers the quota of its key by exactly 1; the
\* quota of a key never rises while its window lasts; and a key whose
\* window has passed has its full quota before it is checked again.
C10_QuotaMonotone ==
    /\ [][ \A c \in Calls :
             (IsCheckOf(c) /\ last'.allowed)
               => RemainingOf(rateLimitStore', c, now')
                    = RemainingOf(rateLimitStore, c, now) - 1 ]_vars
    /\ [][ \A c \in Calls :
             (InsideWindow(rateLimitStore, c, now) /\ InsideWindow(rateLimitStore', c, now')
                /\ rateLimitStore'[Key(c[1], c[2])].resetTime
                     = rateLimitStore[Key(c[1], c[2])].resetTime)
               => RemainingOf(rateLimitStore', c, now')
                    <= RemainingOf(rateLimitStore, c, now) ]_vars
    /\ [](\A c \in Calls :
             (Present(rateLimitStore, c) /\ ~InsideWindow(rateLimitStore, c, now))
               => RemainingOf(rateLimitStore, c, now) = MaxRequestsOf(c[1]))

\* An admitted second check of a window, which left quota 0 on a key of
\* limit 2.
C10_Witness ==
    /\ last.op = "check"
    /\ last.category = "booking"
    /\ last.allowed
    /\ last.prior = 1
    /\ rateLimitStore[KeyOfLast].count = 2
    /\ RemainingOf(rateLimitStore, << "booking", last.identifier >>, now) = 0

\* The operations the module exports.
ControllerOp == Check \/ Remaining

SweepDue == \E id \in DOMAIN timers : now >= timers[id]

\* C11 as stated: whenever the sweep loop is active, an operation of the
\* controller can stop it (the process living on), and the process can
\* exit.
C11_Stoppable ==
    (alive /\ cleanupTimer # 0)
        => /\ ENABLED (ControllerOp /\ alive' /\ DOMAIN timers' = {})
           /\ ENABLED Exit

\* C11, amended: no step of a running process stops the sweep loop once it
\* is set; a sweep that is due keeps no check from being made; the timer
\* never keeps the process from exiting; and no sweep runs after the exit.
C11_SweepEndsOnlyWithProcess ==
    /\ [][ (alive' /\ cleanupTimer # 0)
             => (cleanupTimer' = cleanupTimer /\ DOMAIN timers' = DOMAIN timers) ]_vars
    /\ [](\A c \in Calls :
             (SweepDue /\ CanCheck(c[1], c[2])) => ENABLED (Check /\ IsCheckOf(c)))
    /\ [](alive => ENABLED Exit)
    /\ [](~alive => ~ENABLED Sweep)

\* The process has exited while its interval timer was set.
C11_Witness ==
    /\ ~alive
    /\ last.op = "exit"
    /\ last.prior = 1

\* The request carries one of the two session cookies.
CarriesSessionCookie(jar) ==
    jar["session-token"] # "absent" \/ jar["next-auth.session-token"] # "absent"

\* C12: a request for a path that is no public route and no sub-path of one
\* is let through only if it carries a session cookie; without one it is
\* redirected to /login with callbackUrl set to the path.
C12_RouteProtection ==
    (trial.fn = "proxy" /\ ~IsPublicRoute(trial.pathname))
        => /\ trial.response.kind = "next" => CarriesSessionCookie(trial.jar)
           /\ ~CarriesSessionCookie(trial.jar)
                => /\ trial.response.kind = "redirect"
                   /\ trial.response.location = LoginPath
                   /\ trial.response.callbackUrl = trial.pathname

\* C13: every response the proxy returns carries every header of
\* SECURITY_HEADERS.
C13_HeadersOnAllResponses ==
    trial.fn = "proxy"
        => \A h \in DOMAIN SECURITY_HEADERS :
             /\ h \in DOMAIN trial.response.headers
             /\ trial.response.headers[h] = SECURITY_HEADERS[h]

\* C14 as stated: a check on a stored key made at now >= resetTime, now =
\* resetTime included, takes the reset transition; the increment transition
\* is taken only when now < resetTime.
C14_ResetAtDeadline ==
    [][ \A c \in Calls :
          (IsCheckOf(c) /\ Present(rateLimitStore, c))
            => LET k == Key(c[1], c[2])
               IN  IF now >= rateLimitStore[k].resetTime
                   THEN /\ last'.allowed
                        /\ rateLimitStore'[k] =
                             [ count |-> 1,
                               resetTime |-> now + RATE_LIMIT_CONFIG[c[1]].windowMs ]
                   ELSE rateLimitStore'[k] =
                          [ rateLimitStore[k] EXCEPT !.count = @ + 1 ] ]_vars

\* C14, amended: a check on a stored key takes the reset transition only
\* when now > resetTime; at now = resetTime, as at any now < resetTime, it
\* takes the increment transition and the limit test applies.
C14_ResetAfterDeadline ==
    [][ \A c \in Calls :
          (IsCheckOf(c) /\ Present(rateLimitStore, c))
            => LET k == Key(c[1], c[2])
               IN  IF now > rateLimitStore[k].resetTime
                   THEN /\ last'.allowed
                        /\ rateLimitStore'[k] =
                             [ count |-> 1,
                               resetTime |-> now + RATE_LIMIT_CONFIG[c[1]].windowMs ]
                   ELSE /\ rateLimitStore'[k] =
                             [ rateLimitStore[k] EXCEPT !.count = @ + 1 ]
                        /\ last'.allowed =
                             (rateLimitStore[k].count + 1 <= MaxRequestsOf(c[1])) ]_vars

\* A check made at now = resetTime exactly, counted in the old window and
\* rejected.
C14_Witness ==
    /\ last.op = "check"
    /\ KeyOfLast \in DOMAIN rateLimitStore
    /\ rateLimitStore[KeyOfLast].resetTime = now
    /\ rateLimitStore[KeyOfLast].count = last.prior + 1
    /\ ~last.allowed

\* C15: every check on a key inside its window adds exactly 1 to count,
\* whether it returns true or false; the stored count is the number of
\* checks made in the window, beyond maxRequests + 1 too.
C15_RejectedChecksCount ==
    /\ [](\A k \in DOMAIN rateLimitStore : rateLimitStore[k].count = inWindow[k])
    /\ [][ \A c \in Calls :
             (IsCheckOf(c) /\ InsideWindow(rateLimitStore, c, now))
               => rateLimitStore'[Key(c[1], c[2])].count =
                    rateLimitStore[Key(c[1], c[2])].count + 1 ]_vars

\* A rejected check on a key whose previous check was rejected already: the
\* count goes from maxRequests + 1 to maxRequests + 2.
C15_Witness ==
    /\ last.op = "check"
    /\ ~last.allowed
    /\ last.prior = MaxRequestsOf(last.category) + 1
    /\ rateLimitStore[KeyOfLast].count = MaxRequestsOf(last.category) + 2

\* The store of a single check has no entry for the key, or an expired one.
TrialOnAbsentOrExpired ==
    /\ trial.fn = "check"
    /\ IF Key("auth", "a") \in DOMAIN trial.store
       THEN trial.t > trial.store[Key("auth", "a")].resetTime
       ELSE TRUE

\* C16: a check on a key that is absent or expired returns true for every
\* maxRequests, 0 included, and leaves count = 1, resetTime = now + windowMs.
C16_ResetAndAllow ==
    TrialOnAbsentOrExpired
        => /\ trial.result.ret
           /\ ~trial.result.threw
           /\ trial.result.store[Key("auth", "a")] =
                [ count |-> 1, resetTime |-> trial.t + WindowMs ]

\* A check under maxRequests = 0 on an expired entry, admitted.
C16_Witness ==
    /\ TrialOnAbsentOrExpired
    /\ trial.maxRequests = 0
    /\ Key("auth", "a") \in DOMAIN trial.store
    /\ trial.result.ret

\* C17: a sweep put before a call changes nothing the call returns or
\* leaves: a check returns the same and leaves the same entry, and the same
\* live entries, on the swept store as on the store with the expired
\* entries left in place; the quota read returns the same; and a sweep at a
\* later time deletes the same whether or not an earlier one ran.
C17_LazyEqualsEager ==
    /\ [][ now' >= now ]_vars
    /\ [][ \A c \in Calls :
             LET k     == Key(c[1], c[2])
                 swept == Cleanup(rateLimitStore, now)
                 eager == RateLimitCheckCall(swept, c[2], c[1], now)
             IN  /\ IsCheckOf(c)
                     => /\ last'.allowed = eager.ret
                        /\ rateLimitStore'[k] = eager.store[k]
                        /\ Cleanup(rateLimitStore', now) = eager.store
                 /\ IsRemainingOf(c)
                     => last'.remaining =
                          GetRateLimitRemainingCall(swept, c[2], c[1], now).ret ]_vars
    /\ [](\A t \in Times :
            t >= now => Cleanup(Cleanup(rateLimitStore, now), t) = Cleanup(rateLimitStore, t))

\* A check has reset an expired entry that no sweep had deleted, while the
\* expired entry of another key is still stored.
C17_Witness ==
    /\ last.op = "check"
    /\ last.prior > 0
    /\ rateLimitStore[KeyOfLast].count = 1
    /\ \E k \in DOMAIN rateLimitStore : now > rateLimitStore[k].resetTime

\* C18: the keys of two (category, identifier) pairs, the categories taken
\* from RATE_LIMIT_CONFIG, are equal only if the categories are equal and
\* the identifiers are equal.
C18_KeysDoNotCollide ==
    (trial.fn = "key" /\ trial.k1 = trial.k2)
        => (trial.c1 = trial.c2 /\ trial.i1 = trial.i2)

\* The keys of two different pairs whose identifiers contain the separator
\* and spell a category.
C18_Witness ==
    /\ trial.fn = "key"
    /\ trial.c1 = "auth" /\ trial.i1 = ":auth:a"
    /\ trial.c2 = "auth" /\ trial.i2 = "auth:a"
    /\ trial.k1 # trial.k2

\* C19: a check on a key inside its window changes count to count + 1 and
\* nothing else of the entry, admitted or rejected; the resetTime of a
\* stored key changes only by a check on the reset-and-allow path.
C19_FixedWindowEnd ==
    [][ \A c \in Calls :
          LET k == Key(c[1], c[2])
          IN  /\ (IsCheckOf(c) /\ InsideWindow(rateLimitStore, c, now))
                   => rateLimitStore'[k] =
                        [ count |-> rateLimitStore[k].count + 1,
                          resetTime |-> rateLimitStore[k].resetTime ]
              /\ ( /\ Present(rateLimitStore, c)
                   /\ Present(rateLimitStore', c)
                   /\ rateLimitStore'[k].resetTime # rateLimitStore[k].resetTime )
                   => /\ IsCheckOf(c)
                      /\ now > rateLimitStore[k].resetTime
                      /\ rateLimitStore'[k].count = 1 ]_vars

\* An admitted check made after the window opened: the window still ends
\* where it did.
C19_Witness ==
    /\ last.op = "check"
    /\ last.allowed
    /\ last.prior >= 1
    /\ rateLimitStore[KeyOfLast].count = last.prior + 1
    /\ rateLimitStore[KeyOfLast].resetTime < now + WindowMs

\* C20: a rejected check leaves the resetTime of its key where it was; a
\* check made after that resetTime is admitted; and, the clock advancing, no
\* key stays for ever in states where its check would be rejected: again
\* and again it is in a state where its check is admitted.
C20_NoPermanentLockout ==
    /\ [][ \A c \in Calls :
             LET k == Key(c[1], c[2])
             IN  /\ (IsCheckOf(c) /\ ~last'.allowed)
                      => /\ Present(rateLimitStore, c)
                         /\ rateLimitStore'[k].resetTime = rateLimitStore[k].resetTime
                 /\ ( /\ IsCheckOf(c)
                      /\ Present(rateLimitStore, c)
                      /\ now > rateLimitStore[k].resetTime )
                      => last'.allowed ]_vars
    /\ \A c \in Calls :
         []<>RateLimitCheckCall(rateLimitStore, c[2], c[1], now).ret

\* A client that kept sending rejected checks up to the end of its window is
\* admitted by the check it makes after the window.
C20_Witness ==
    /\ last.op = "check"
    /\ last.category = "booking"
    /\ last.allowed
    /\ last.prior = MaxRequestsOf("booking") + Overrun
    /\ now <= TrafficEnd

\* The store after n calls of rateLimitCheck(c[2], c[1]) at time t.
RECURSIVE AfterChecks(_, _, _, _)
AfterChecks(store, c, t, n) ==
    IF n = 0 THEN store
    ELSE RateLimitCheckCall(AfterChecks(store, c, t, n - 1), c[2], c[1], t).store

\* What the n-th of n calls of rateLimitCheck(c[2], c[1]) at time t returns.
NthCheck(store, c, t, n) ==
    RateLimitCheckCall(AfterChecks(store, c, t, n - 1), c[2], c[1], t).ret

\* C21: for a key with a non-expired entry, getRateLimitRemaining returns 0
\* exactly when a rateLimitCheck on the key at the same instant returns
\* false; when it returns r > 0, the next r checks made inside the window
\* are admitted and the one after them is rejected.  Both calls, when they
\* are made, return what the other's answer foretells.
C21_QuotaAgreesWithGate ==
    /\ [](\A c \in Calls :
            InsideWindow(rateLimitStore, c, now)
              => LET r == RemainingOf(rateLimitStore, c, now)
                 IN  /\ (r = 0) = ~RateLimitCheckCall(rateLimitStore, c[2], c[1], now).ret
                     /\ \A t \in Times :
                          (now <= t /\ InsideWindow(rateLimitStore, c, t))
                            => /\ \A n \in 1 .. r : NthCheck(rateLimitStore, c, t, n)
                               /\ ~NthCheck(rateLimitStore, c, t, r + 1))
    /\ [][ \A c \in Calls :
             InsideWindow(rateLimitStore, c, now)
               => /\ IsCheckOf(c)
                     => last'.allowed = (RemainingOf(rateLimitStore, c, now) > 0)
                  /\ IsRemainingOf(c)
                     => (last'.remaining = 0)
                          = ~RateLimitCheckCall(rateLimitStore', c[2], c[1], now).ret ]_vars

\* The quota of a key whose window is open was read as 1 with maxRequests 2:
\* one more check is admitted.
C21_Witness ==
    /\ last.op = "remaining"
    /\ last.category = "booking"
    /\ last.remaining = 1
    /\ InsideWindow(rateLimitStore, << last.category, last.identifier >>, now)
    /\ rateLimitStore[KeyOfLast].count = 1

\* C22: a sweep at time now deletes no entry with now <= resetTime, adds
\* none and leaves every entry it keeps as it was, so the quota and the
\* next check of a key inside its window are what they were; a second sweep
\* at the same time changes nothing.
C22_SweepFrame ==
    [][ last'.op = "sweep"
          => /\ DOMAIN rateLimitStore' \subseteq DOMAIN rateLimitStore
             /\ \A k \in DOMAIN rateLimitStore :
                  /\ now <= rateLimitStore[k].resetTime => k \in DOMAIN rateLimitStore'
                  /\ k \in DOMAIN rateLimitStore' => rateLimitStore'[k] = rateLimitStore[k]
             /\ \A c \in Calls :
                  InsideWindow(rateLimitStore, c, now)
                    => /\ RemainingOf(rateLimitStore', c, now)
                            = RemainingOf(rateLimitStore, c, now)
                       /\ RateLimitCheckCall(rateLimitStore', c[2], c[1], now).ret
                            = RateLimitCheckCall(rateLimitStore, c[2], c[1], now).ret
             /\ Cleanup(rateLimitStore', now) = rateLimitStore' ]_vars

\* A sweep has deleted an expired entry and kept the entry of a key that is
\* over its limit and inside its window.
C22_Witness ==
    /\ last.op = "sweep"
    /\ last.prior >= 1
    /\ \E c \in Calls :
         /\ InsideWindow(rateLimitStore, c, now)
         /\ rateLimitStore[Key(c[1], c[2])].count > MaxRequestsOf(c[1])

=============================================================================
